---- MODULE Spec2Model ----
(***************************************************************************)
(* Model of data_to_paper's debugging control loop                         *)
(* (data_to_paper/base_steps/debugger.py, class DebuggerConverser).        *)
(*                                                                         *)
(* One run_debugging() call is modelled.  Each step of the model is one    *)
(* pass of the for loop of run_debugging (one whole call of                *)
(* _get_code_and_respond_to_issues, with the model's response, the         *)
(* runner's verdict and the output findings as inputs), or the tail of     *)
(* run_debugging that is executed when the loop is exhausted.              *)
(***************************************************************************)
EXTENDS Integers, Sequences, FiniteSets, TLC

(***************************************************************************)
(* Bounds of the model.                                                    *)
(***************************************************************************)
\* the largest max_debug_iterations a session is configured with
MaxDebugIterations == 3
\* the longest code (in lines) the model answers with
MaxLines == 10
\* the largest number of dispatch-table types one exception is an instance of
MaxBases == 2
\* the largest number of symbols a failed `from ... import` names
MaxFromlist == 2
\* max_tokens of the content-bearing output requirement
TokenBudget == 2
\* minimal_count of the wildcard output requirement
MinimalCount == 2

CodeLines == {MaxLines - 2, MaxLines - 1, MaxLines}

(***************************************************************************)
(* Values.                                                                 *)
(***************************************************************************)
\* `code: Optional[str] = None`: the absent code.  A code is identified by
\* the iteration whose response carried it and by its line count.
NoneCode == [id |-> 0, lines |-> 0]

Code(it, lines) == [id |-> it, lines |-> lines]

\* The conversation the session starts from: it "ends with a code-request
\* from the user".
Prefix ==
    << [role |-> "SYSTEM", kind |-> "prefix", it |-> 0, code |-> NoneCode],
       [role |-> "USER", kind |-> "code_request", it |-> 0, code |-> NoneCode] >>

\* len(self.conversation) when the first response is about to be requested
conversation_len_before_first_response == Len(Prefix)

\* CodeProblem and its order (an ordered enum; `>` is used at line 472)
CodeProblem ==
    << "NoCode", "NotSingleBlock", "IncompleteBlock", "StaticCheck",
       "RuntimeError", "OutputFileContent" >>

Severity(code_problem) ==
    CHOOSE i \in 1..Len(CodeProblem) : CodeProblem[i] = code_problem

CodeProblems == {CodeProblem[i] : i \in 1..Len(CodeProblem)}

\* A RunIssue: its kind and whether it is flagged as requesting a small change.
\* NoneIssue is Python's None standing in a list of issues.
\* about: the file or the requirement the text of the issue names ("none"
\* when it names neither).
RunIssueAbout(kind, minor, about) ==
    [kind |-> kind, minor |-> minor, about |-> about]

RunIssue(kind, minor) == RunIssueAbout(kind, minor, "none")

NoneIssue == RunIssue("None", FALSE)

\* The kinds of issue flagged minor: the dataframe-series change and the
\* output-file content.
MinorKinds == {"DataFrameSeriesChange", "OutputFileContent"}

Issue(kind) == RunIssue(kind, kind \in MinorKinds)

IssueAbout(kind, about) == RunIssueAbout(kind, kind \in MinorKinds, about)

(***************************************************************************)
(* The model engines.                                                      *)
(***************************************************************************)
\* ModelEngine: the engines up to MAX_MODEL_ENGINE, in the order that `<`
\* compares them
ModelEngine == << "engine_1", "engine_2", "engine_3" >>

MAX_MODEL_ENGINE == ModelEngine[Len(ModelEngine)]

\* an engine that get_next() may give after MAX_MODEL_ENGINE
BeyondMaxEngine == "engine_beyond_max"

EnginesUpToMax == {ModelEngine[i] : i \in 1..Len(ModelEngine)}

EngineIndex(engine) ==
    IF engine \in EnginesUpToMax
    THEN CHOOSE i \in 1..Len(ModelEngine) : ModelEngine[i] = engine
    ELSE Len(ModelEngine) + 1

\* ModelEngine.get_next(): the next engine in the order; of the maximum,
\* the maximum itself when it is the last engine and the engine after it
\* otherwise
GetNext(engine) ==
    IF EngineIndex(engine) < Len(ModelEngine)
    THEN {ModelEngine[EngineIndex(engine) + 1]}
    ELSE {MAX_MODEL_ENGINE, BeyondMaxEngine}

(***************************************************************************)
(* Messages of the conversation.                                           *)
(***************************************************************************)
ResponseMessage(it, code) ==
    [role |-> "ASSISTANT", kind |-> "response", it |-> it, code |-> code]

SurrogateMessage(it, code) ==
    [role |-> "SURROGATE", kind |-> "code_as_fresh", it |-> it, code |-> code]

UserMessage(it) ==
    [role |-> "USER", kind |-> "issues", it |-> it, code |-> NoneCode]

RestartMessage(it) ==
    [role |-> "USER", kind |-> "restart", it |-> it, code |-> NoneCode]

VARIABLES
    conversation,            \* self.conversation: the active messages
    max_debug_iterations,    \* self.max_debug_iterations
    debug_iteration,         \* self.debug_iteration
    previous_code,           \* self.previous_code
    requesting_small_change, \* self._requesting_small_change
    previous_code_problem,   \* self._previous_code_problem
    pc,                      \* "loop": in the for loop; "returned"; "raised"
    returned,                \* the value run_debugging returned
    stage,                   \* where the last iteration left
    code,                    \* the code extracted in the last iteration
    issues,                  \* the issues passed to _respond_to_issues
    code_problem,            \* the code_problem passed to _respond_to_issues
    response_count,          \* the response_count computed at line 463
    action,                  \* the action selected at lines 464-475
    ops,                     \* the calls made by the last step, in order
    requests,                \* the number of model responses requested
    runs,                    \* the number of run_code() calls
    data_folder,             \* the data files in self.data_folder left by runs
    created_files,           \* the data files the run of the last step created
    supported_packages,      \* self.supported_packages
    import_error,            \* the ImportError the run of the last step raised
    import_issue,            \* the issue made for that ImportError
    exception,               \* e.exception of the FailedRunningCode of the last step
    extraction_failure,      \* the failure extract_code() of the last step raised
    output_file_requirements, \* self.output_file_requirements
    output,                  \* what the run of the last step left, if it completed
    model_engine,            \* self.model_engine
    request_engine           \* the engine the response of the last step was requested from

\* SemanticScholarPaperServerCaller._get_server_response
VARIABLES
    query,                   \* the local query
    search_pc,               \* "request": at line 113; "returned"; "raised"; "idle"
    search_requests,         \* the number of requests.get() calls made
    search_result,           \* what the call returned
    response,                \* the response of the last requests.get()
    removed_word             \* the word the last pass removed from the query

search_vars ==
    << query, search_pc, search_requests, search_result, response,
       removed_word >>

\* save_latex_and_compile_to_pdf
VARIABLES
    latex_pc,                \* the line the call is at; "returned"; "raised"; "idle"
    references,              \* whether references are given
    output_directory,        \* whether output_directory is given
    raise_on_too_wide,       \* the argument of that name
    pdflatex_output,         \* whether the output of the first run reports an overfull box
    temp_directory,          \* the files in the temporary directory
    moved_files,             \* the files in the output directory
    latex_exception          \* the exception the call raised

latex_vars ==
    << latex_pc, references, output_directory, raise_on_too_wide,
       pdflatex_output, temp_directory, moved_files, latex_exception >>

\* MultiChoiceBackgroundProductsConverser
VARIABLES
    possible_choices,        \* self.possible_choices
    extracted_text,          \* the text given to _check_extracted_text_and_update_valid_result
    valid_result,            \* self.valid_result
    choice_pc,               \* "check": before the call; "returned"; "raised"; "idle"
    self_response_error      \* the text the self-response error carries

choice_vars ==
    << possible_choices, extracted_text, valid_result, choice_pc,
       self_response_error >>

\* ScientificProducts
VARIABLES
    paper_sections,          \* self.paper_sections
    cited_paper_sections_and_citations,
    ready_to_be_tabled_paper_sections,
    tables,                  \* self.tables
    products_pc,             \* "get": before the property is read; "got"; "idle"
    most_updated_paper_sections \* the value the property gave

products_vars ==
    << paper_sections, cited_paper_sections_and_citations,
       ready_to_be_tabled_paper_sections, tables, products_pc,
       most_updated_paper_sections >>

debugger_vars ==
    << conversation, max_debug_iterations, debug_iteration, previous_code,
       requesting_small_change, previous_code_problem, pc, returned, stage,
       code, issues, code_problem, response_count, action, ops, requests,
       runs, data_folder, created_files, supported_packages, import_error,
       import_issue, exception, extraction_failure, output_file_requirements,
       output, model_engine, request_engine >>

vars == << debugger_vars, search_vars, latex_vars, choice_vars, products_vars >>

\* no search is under way
SearchIdle ==
    /\ query = << >>
    /\ search_pc = "idle"
    /\ search_requests = 0
    /\ search_result = [returned |-> FALSE, papers |-> << >>]
    /\ response = [status_code |-> 0, has_data |-> FALSE, papers |-> << >>]
    /\ removed_word = << >>

\* no compilation is under way
LatexIdle ==
    /\ latex_pc = "idle"
    /\ references = FALSE
    /\ output_directory = FALSE
    /\ raise_on_too_wide = FALSE
    /\ pdflatex_output = FALSE
    /\ temp_directory = {}
    /\ moved_files = {}
    /\ latex_exception = "none"

\* no multi-choice answer is being checked
ChoiceIdle ==
    /\ possible_choices = << >>
    /\ extracted_text = << >>
    /\ valid_result = << >>
    /\ choice_pc = "idle"
    /\ self_response_error = "none"

\* no paper is being assembled
ProductsIdle ==
    /\ paper_sections = << >>
    /\ cited_paper_sections_and_citations = << >>
    /\ ready_to_be_tabled_paper_sections = << >>
    /\ tables = << >>
    /\ products_pc = "idle"
    /\ most_updated_paper_sections = << >>


(***************************************************************************)
(* The conversation operations the controller calls.                       *)
(***************************************************************************)
\* _rewind_conversation_to_first_response: every message from the first
\* response on is deleted.
RewindConversationToFirstResponse(conv) ==
    SubSeq(conv, 1, conversation_len_before_first_response)

\* apply_delete_messages([-2, -1])
DeleteLastTwoMessages(conv) == SubSeq(conv, 1, Len(conv) - 2)

(***************************************************************************)
(* RunIssueCollector.                                                      *)
(***************************************************************************)
\* do_all_issues_request_small_change()
DoAllIssuesRequestSmallChange(iss) == \A i \in 1..Len(iss) : iss[i].minor

\* get_message_and_comment() reads the text of every issue of the batch: a
\* None in the batch has none, and the call raises.
GetMessageAndCommentRaises(iss) == \E i \in 1..Len(iss) : iss[i] = NoneIssue

(***************************************************************************)
(* DebuggerConverser._get_response_count                                   *)
(***************************************************************************)
\* mutant of GetResponseCount: the messages are counted, not the pairs
GetResponseCount_NotHalved(conv) ==
    Len(conv) - conversation_len_before_first_response - 1

GetResponseCount(conv) ==
    (Len(conv) - conversation_len_before_first_response - 1) \div 2

\* mutants of SelectAction: the two first-response branches swapped; the
\* first-response NotSingleBlock regenerated; `>=` and `<` for `>`
SelectAction_FirstBranchesSwapped(rc, cp) ==
    IF rc = 0
    THEN IF cp = "IncompleteBlock" THEN "leave"
         ELSE IF cp = "NotSingleBlock" THEN "regenerate"
         ELSE "repost"
    ELSE IF Severity(cp) > Severity("StaticCheck") THEN "repost"
         ELSE "regenerate"

SelectAction_NeverLeaves(rc, cp) ==
    IF rc = 0
    THEN IF cp \in {"IncompleteBlock", "NotSingleBlock"} THEN "regenerate"
         ELSE "repost"
    ELSE IF Severity(cp) > Severity("StaticCheck") THEN "repost"
         ELSE "regenerate"

SelectAction_AtLeastStaticCheck(rc, cp) ==
    IF rc = 0
    THEN IF cp = "IncompleteBlock" THEN "regenerate"
         ELSE IF cp = "NotSingleBlock" THEN "leave"
         ELSE "repost"
    ELSE IF Severity(cp) >= Severity("StaticCheck") THEN "repost"
         ELSE "regenerate"

SelectAction_ComparisonInverted(rc, cp) ==
    IF rc = 0
    THEN IF cp = "IncompleteBlock" THEN "regenerate"
         ELSE IF cp = "NotSingleBlock" THEN "leave"
         ELSE "repost"
    ELSE IF Severity(cp) < Severity("StaticCheck") THEN "repost"
         ELSE "regenerate"

\* mutant of SelectAction: later responses are compared with RuntimeError
SelectAction_AboveRuntimeError(rc, cp) ==
    IF rc = 0
    THEN IF cp = "IncompleteBlock" THEN "regenerate"
         ELSE IF cp = "NotSingleBlock" THEN "leave"
         ELSE "repost"
    ELSE IF Severity(cp) > Severity("RuntimeError") THEN "repost"
         ELSE "regenerate"

\* mutant of SelectAction: the first response has no leave branch
SelectAction_NoLeaveBranch(rc, cp) ==
    IF rc = 0
    THEN IF cp = "IncompleteBlock" THEN "regenerate"
         ELSE "repost"
    ELSE IF Severity(cp) > Severity("StaticCheck") THEN "repost"
         ELSE "regenerate"

\* mutant of SelectAction: a later NotSingleBlock is left as the first is
SelectAction_LeavesLater(rc, cp) ==
    IF cp = "NotSingleBlock" THEN "leave"
    ELSE IF rc = 0
    THEN IF cp = "IncompleteBlock" THEN "regenerate"
         ELSE "repost"
    ELSE IF Severity(cp) > Severity("StaticCheck") THEN "repost"
         ELSE "regenerate"

(***************************************************************************)
(* DebuggerConverser._respond_to_issues, lines 463-475: the action.        *)
(***************************************************************************)
SelectAction(rc, cp) ==
    IF rc = 0
    THEN IF cp = "IncompleteBlock" THEN "regenerate"
         ELSE IF cp = "NotSingleBlock" THEN "leave"
         ELSE "repost"
    ELSE IF Severity(cp) > Severity("StaticCheck") THEN "repost"
         ELSE "regenerate"

\* mutant of PostCodeAsFresh: the code problem is not recorded
PostCodeAsFresh_ProblemNotSet(s, c, cp, it) ==
    [s EXCEPT
        !.conversation =
            Append(RewindConversationToFirstResponse(@), SurrogateMessage(it, c)),
        !.previous_code = c]

\* mutant of PostCodeAsFresh: the conversation is rewound after the code is
\* posted
PostCodeAsFresh_RewindAfterPost(s, c, cp, it) ==
    [s EXCEPT
        !.conversation =
            RewindConversationToFirstResponse(Append(@, SurrogateMessage(it, c))),
        !.previous_code = c,
        !.previous_code_problem = cp]

\* mutant of PostCodeAsFresh: the conversation is not rewound
PostCodeAsFresh_NoRewind(s, c, cp, it) ==
    [s EXCEPT
        !.conversation = Append(@, SurrogateMessage(it, c)),
        !.previous_code = c,
        !.previous_code_problem = cp]

(***************************************************************************)
(* DebuggerConverser._post_code_as_fresh                                   *)
(* s: the session state [conversation, previous_code,                      *)
(* previous_code_problem, requesting_small_change].                        *)
(***************************************************************************)
PostCodeAsFresh(s, c, cp, it) ==
    [s EXCEPT
        !.conversation =
            Append(RewindConversationToFirstResponse(@), SurrogateMessage(it, c)),
        !.previous_code = c,
        !.previous_code_problem = cp]

\* lines 484-488: the corrective user message is appended
AppendIssuesMessage(s, it) ==
    [s EXCEPT !.conversation = Append(@, UserMessage(it))]

\* mutant of DeleteForRegenerate: only the last message is deleted
DeleteForRegenerate_OnlyLast(s, act) ==
    IF act = "regenerate"
    THEN [s EXCEPT !.conversation = SubSeq(@, 1, Len(@) - 1)]
    ELSE s

\* lines 490-492: the regenerate action deletes the last two messages
DeleteForRegenerate(s, act) ==
    IF act = "regenerate"
    THEN [s EXCEPT !.conversation = DeleteLastTwoMessages(@)]
    ELSE s

\* mutant of SetRequestingSmallChange: the flag is left as it was
SetRequestingSmallChange_Stale(s, iss) == s

\* mutant of SetRequestingSmallChange: the flag is set whatever the batch
SetRequestingSmallChange_AlwaysTrue(s, iss) ==
    [s EXCEPT !.requesting_small_change = TRUE]

\* line 494
SetRequestingSmallChange(s, iss) ==
    [s EXCEPT !.requesting_small_change = DoAllIssuesRequestSmallChange(iss)]

(***************************************************************************)
(* DebuggerConverser._respond_to_issues: the session state it leaves, the  *)
(* response count and the action it computed, whether it raised, and the   *)
(* conversation calls it made.                                             *)
(***************************************************************************)
RespondToIssues(s, iss, c, cp, it) ==
    LET rc == GetResponseCount(s.conversation)
        act == SelectAction(rc, cp)
        s1 == IF act = "repost" THEN PostCodeAsFresh(s, c, cp, it) ELSE s
        ops1 == IF act = "repost" THEN << "rewind", "append_surrogate" >> ELSE << >>
        s2 == AppendIssuesMessage(s1, it)
        s3 == DeleteForRegenerate(s2, act)
        s4 == SetRequestingSmallChange(s3, iss)
        ops4 == ops1 \o << "append_user" >>
                \o (IF act = "regenerate" THEN << "delete_messages" >> ELSE << >>)
    IN  IF GetMessageAndCommentRaises(iss)
        THEN [state |-> s1, raised |-> TRUE, response_count |-> rc,
              action |-> act, ops |-> ops1]
        ELSE [state |-> s4, raised |-> FALSE, response_count |-> rc,
              action |-> act, ops |-> ops4]


(***************************************************************************)
(* The static check, lines 517-524.                                        *)
(***************************************************************************)
\* line 405: line_count(new_code) < line_count(old_code) * 0.9
IsShorterThanModification(new_code, old_code) ==
    new_code.lines * 10 < old_code.lines * 9

\* _get_issue_for_new_code_not_being_a_modification_of_old_code: the issue,
\* or None
GetIssueForNewCodeNotBeingAModificationOfOldCode(new_code, old_code) ==
    IF IsShorterThanModification(new_code, old_code)
    THEN Issue("NotModificationOfPreviousCode")
    ELSE NoneIssue

\* _get_issues_for_static_code_check
GetIssuesForStaticCodeCheck(c) == << >>

\* lines 518-522: the list static_code_check_issues.  What the method at
\* line 521 returns is appended as it is, an issue or None.
StaticCodeCheckIssues(rsc, c, old_code) ==
    (IF rsc
     THEN << GetIssueForNewCodeNotBeingAModificationOfOldCode(c, old_code) >>
     ELSE << >>)
    \o GetIssuesForStaticCodeCheck(c)

(***************************************************************************)
(* The dispatch of an execution failure, lines 531-551.                    *)
(***************************************************************************)
\* the keys of exceptions_to_funcs, in the order of the dict
ExceptionsToFuncs ==
    << "ImportError", "TimeoutError", "UnAllowedFilesCreated",
       "FileNotFoundError", "CodeUsesForbiddenFunctions",
       "UnAllowedDataframeMethodCall", "CodeImportForbiddenModule",
       "CodeWriteForbiddenFile", "CodeReadForbiddenFile",
       "DataFrameSeriesChange", "RunUtilsError" >>

ExceptionTypes == {ExceptionsToFuncs[i] : i \in 1..Len(ExceptionsToFuncs)}

\* An exception is given by the types of the table it is an instance of
\* (none for an exception the table does not list).
ExceptionsOfUpTo(n) == {e \in SUBSET ExceptionTypes : Cardinality(e) <= n}

\* the exceptions that are an instance of at most one type of the table
Exceptions == ExceptionsOfUpTo(1)

\* the exceptions of classes with several bases among the types of the table
ManyBasedExceptions == ExceptionsOfUpTo(MaxBases)

\* the value of exception when the last step caught no FailedRunningCode
NoException == {"NoException"}

\* mutant of GetRunTimeIssue: the last entry of the table that matches
GetRunTimeIssue_LastMatch(e) ==
    IF \E i \in 1..Len(ExceptionsToFuncs) : ExceptionsToFuncs[i] \in e
    THEN Issue(ExceptionsToFuncs[
            CHOOSE i \in 1..Len(ExceptionsToFuncs) :
                /\ ExceptionsToFuncs[i] \in e
                /\ \A j \in (i + 1)..Len(ExceptionsToFuncs) :
                        ExceptionsToFuncs[j] \notin e])
    ELSE Issue("RegularExceptionOrWarning")

\* lines 545-550: the first entry of the table the exception is an instance
\* of gives the issue; the for-else gives the generic one.
GetRunTimeIssue(e) ==
    IF \E i \in 1..Len(ExceptionsToFuncs) : ExceptionsToFuncs[i] \in e
    THEN Issue(ExceptionsToFuncs[
            CHOOSE i \in 1..Len(ExceptionsToFuncs) :
                /\ ExceptionsToFuncs[i] \in e
                /\ \A j \in 1..(i - 1) : ExceptionsToFuncs[j] \notin e])
    ELSE Issue("RegularExceptionOrWarning")

(***************************************************************************)
(* The issue for an ImportError, lines 30-32 and 130-168.                  *)
(***************************************************************************)
\* KNOWN_MIS_IMPORTS: symbol -> module, a module being its dotted path
KNOWN_MIS_IMPORTS ==
    [var \in {"Mediation"} |-> << "statsmodels", "stats", "mediation" >>]

\* the symbols a failed import may name, and the packages that may be
\* supported
ImportedSymbols == {"Mediation", "OLS"}

PackageSets == {{"numpy"}, {"numpy", "statsmodels"}}

\* An ImportError: whether it has the attribute fromlist, and the list.
ImportErrors ==
    {[name |-> "ImportError", has_fromlist |-> FALSE, fromlist |-> << >>]}
    \cup {[name |-> "ImportError", has_fromlist |-> TRUE, fromlist |-> f] :
            f \in UNION {[1..n -> ImportedSymbols] : n \in 0..MaxFromlist}}

NoImportError == [name |-> "none", has_fromlist |-> FALSE, fromlist |-> << >>]

\* The text of the issue for an ImportError: the supported packages it
\* lists and, with the hint, the symbol and the module the hint names.
ImportIssue(hint, var, correct_package, packages) ==
    [hint |-> hint, var |-> var, correct_package |-> correct_package,
     supported_packages |-> packages]

\* `return` without a value at lines 132, 134, 137 and 142; also the value
\* of import_issue when the last step made no such issue
NoImportIssue == ImportIssue(FALSE, "", << >>, {})

\* line 140: correct_package up to the first '.', or all of it
PackageBase(correct_package) == Head(correct_package)

\* mutant of GetIssueForKnownMisImports: the package of the module is not
\* looked up in supported_packages
GetIssueForKnownMisImports_PackageNotChecked(e, packages) ==
    IF ~e.has_fromlist THEN NoImportIssue
    ELSE IF Len(e.fromlist) # 1 THEN NoImportIssue
    ELSE IF e.fromlist[1] \notin DOMAIN KNOWN_MIS_IMPORTS THEN NoImportIssue
    ELSE ImportIssue(TRUE, e.fromlist[1], KNOWN_MIS_IMPORTS[e.fromlist[1]],
                     packages)

\* _get_issue_for_known_mis_imports
GetIssueForKnownMisImports(e, packages) ==
    IF ~e.has_fromlist THEN NoImportIssue
    ELSE IF Len(e.fromlist) # 1 THEN NoImportIssue
    ELSE IF e.fromlist[1] \notin DOMAIN KNOWN_MIS_IMPORTS THEN NoImportIssue
    ELSE IF PackageBase(KNOWN_MIS_IMPORTS[e.fromlist[1]]) \notin packages
         THEN NoImportIssue
    ELSE ImportIssue(TRUE, e.fromlist[1], KNOWN_MIS_IMPORTS[e.fromlist[1]],
                     packages)

\* _get_issue_for_allowed_packages
GetIssueForAllowedPackages(e, packages) ==
    IF GetIssueForKnownMisImports(e, packages) # NoImportIssue
    THEN GetIssueForKnownMisImports(e, packages)
    ELSE ImportIssue(FALSE, "", << >>, packages)

(***************************************************************************)
(* The checks after a run without execution failure, lines 556-560.        *)
(***************************************************************************)
\* An OutputFileRequirement: the filename it declares (a pattern when it is
\* a wildcard), the names the files created for it take, in the order they
\* are created, its minimal_count, whether it is a
\* ContentOutputFileRequirement, and then its max_tokens.
Requirement(filename, names, minimal_count, is_content, max_tokens) ==
    [filename |-> filename, names |-> names, minimal_count |-> minimal_count,
     is_content |-> is_content, max_tokens |-> max_tokens]

\* one content-bearing output file of a fixed name
SingleFileRequirements ==
    << Requirement("out.csv", << "out.csv" >>, 1, TRUE, TokenBudget) >>

\* a content-bearing output file and data files declared by a wildcard
OutputAndDataRequirements ==
    << Requirement("output.txt", << "output.txt" >>, 1, TRUE, TokenBudget),
       Requirement("*.csv", << "a.csv", "b.csv", "c.csv", "d.csv" >>,
                   MinimalCount, FALSE, 0) >>

\* The content of a created file: whether it is empty when stripped, and
\* its number of tokens.  A content of white space only is empty when
\* stripped, and has tokens.
Content(blank, tokens) == [blank |-> blank, tokens |-> tokens]

Contents ==
    {Content(TRUE, n) : n \in {0, TokenBudget + 1}}
    \cup {Content(FALSE, n) : n \in {1, TokenBudget, TokenBudget + 1}}

\* a content within the budget, an empty one, one over the budget
SimpleContents ==
    {Content(FALSE, 1), Content(TRUE, 0), Content(FALSE, TokenBudget + 1)}

\* the sequences of at most n elements of S
SeqsUpTo(S, n) == UNION {[1..k -> S] : k \in 0..n}

\* What a completed run left: for each requirement the contents of the
\* files created for it
\* (code_and_output.requirements_to_output_files_to_contents), the issue
\* the run itself collected (if any, and its flag), and whether a changed
\* dataframe was left unsaved.
Output(files, collected, unsaved) ==
    [files |-> files, collected |-> collected, unsaved |-> unsaved]

\* the value of output when the run of the last step did not complete
NoOutput == Output(<< >>, "none", FALSE)

\* the runs for SingleFileRequirements
RunOutputs ==
    {Output(<< f >>, c, u) :
        f \in SeqsUpTo(SimpleContents, 1),
        c \in {"none", "minor", "major"}, u \in BOOLEAN}

\* the runs for OutputAndDataRequirements that collect no issue and leave
\* no dataframe unsaved
FileOutputs ==
    {Output(<< f, g >>, "none", FALSE) :
        f \in SeqsUpTo(Contents, 1),
        g \in SeqsUpTo({Content(FALSE, 1), Content(TRUE, 0)},
                       Len(OutputAndDataRequirements[2].names))}

\* the concatenation of Part[1], ..., Part[n]
ConcatAll(Part, n) ==
    LET upto[i \in 0..n] == IF i = 0 THEN << >> ELSE upto[i - 1] \o Part[i]
    IN  upto[n]

\* code_and_output.get_created_data_files(): the files the run of iteration
\* `it` created
CreatedDataFiles(reqs, it, o) ==
    UNION {{[name |-> reqs[i].names[k], it |-> it] : k \in 1..Len(o.files[i])} :
            i \in 1..Len(reqs)}

\* mutant of RemoveCreatedDataFiles: the files are left in the folder
RemoveCreatedDataFiles_Keeps(folder, created) == folder

\* lines 564-566: every created data file is removed from the data folder
RemoveCreatedDataFiles(folder, created) == folder \ created

\* mutant of GetIssuesForNumFilesCreated: `<=` for `<`
GetIssuesForNumFilesCreated_AtMost(reqs, o) ==
    ConcatAll([i \in 1..Len(reqs) |->
                  IF Len(o.files[i]) <= reqs[i].minimal_count
                  THEN << IssueAbout("NumFilesCreated", reqs[i].filename) >>
                  ELSE << >>],
              Len(reqs))

\* _get_issues_for_num_files_created
GetIssuesForNumFilesCreated(reqs, o) ==
    ConcatAll([i \in 1..Len(reqs) |->
                  IF Len(o.files[i]) < reqs[i].minimal_count
                  THEN << IssueAbout("NumFilesCreated", reqs[i].filename) >>
                  ELSE << >>],
              Len(reqs))

\* mutant of GetIssuesForOutputFileContent: an issue for each of the two
\* checks
GetIssuesForOutputFileContent_IssuePerCheck(requirement, filename, content) ==
    (IF content.blank
     THEN << IssueAbout("OutputFileContent", filename) >> ELSE << >>)
    \o (IF content.tokens > requirement.max_tokens
        THEN << IssueAbout("OutputFileContent", filename) >> ELSE << >>)

\* _get_issues_for_output_file_content: the text chosen by the second check
\* replaces the text chosen by the first
GetIssuesForOutputFileContent(requirement, filename, content) ==
    LET issue1 == IF content.blank THEN "empty" ELSE "None"
        issue2 == IF content.tokens > requirement.max_tokens
                  THEN "too long" ELSE issue1
    IN  IF issue2 # "None"
        THEN << IssueAbout("OutputFileContent", filename) >>
        ELSE << >>

\* _get_issues_for_created_output_files
GetIssuesForCreatedOutputFiles(reqs, o) ==
    ConcatAll([i \in 1..Len(reqs) |->
                  IF reqs[i].is_content
                  THEN ConcatAll([k \in 1..Len(o.files[i]) |->
                                     GetIssuesForOutputFileContent(
                                         reqs[i], reqs[i].names[k], o.files[i][k])],
                                 Len(o.files[i]))
                  ELSE << >>],
              Len(reqs))

\* lines 556-560
GetOutputIssues(reqs, o) ==
    GetIssuesForNumFilesCreated(reqs, o)
    \o (IF o.collected = "none" THEN << >>
        ELSE << RunIssue("CollectedInRun", o.collected = "minor") >>)
    \o (IF o.unsaved THEN << Issue("UnsavedDataframes") >> ELSE << >>)
    \o GetIssuesForCreatedOutputFiles(reqs, o)


(***************************************************************************)
(* run_debugging and _get_code_and_respond_to_issues.                      *)
(***************************************************************************)
\* The state after construction.  previous_code and _requesting_small_change
\* are fields of the dataclass (defaults None and False): a converser that
\* is asked to modify an existing code is constructed with both.
DebuggerInitWith(requirements) ==
    /\ conversation = Prefix
    /\ max_debug_iterations \in 0..MaxDebugIterations
    /\ debug_iteration = 0
    /\ previous_code \in {NoneCode} \cup {Code(0, l) : l \in CodeLines}
    /\ requesting_small_change \in BOOLEAN
    /\ requesting_small_change => previous_code # NoneCode
    /\ previous_code_problem = "NoCode"
    /\ pc = "loop"
    /\ returned = [value |-> "nothing", code |-> NoneCode, files |-> {}]
    /\ stage = "none"
    /\ code = NoneCode
    /\ issues = << >>
    /\ code_problem = "none"
    /\ response_count = 0
    /\ action = "none"
    /\ ops = << >>
    /\ requests = 0
    /\ runs = 0
    /\ data_folder = {}
    /\ created_files = {}
    /\ supported_packages \in PackageSets
    /\ import_error = NoImportError
    /\ import_issue = NoImportIssue
    /\ exception = NoException
    /\ extraction_failure = "none"
    /\ output_file_requirements = requirements
    /\ output = NoOutput
    /\ model_engine \in EnginesUpToMax
    /\ request_engine = "none"

\* the debugger at work, and nothing else
InitWith(requirements) ==
    /\ DebuggerInitWith(requirements)
    /\ SearchIdle
    /\ LatexIdle
    /\ ChoiceIdle
    /\ ProductsIdle

\* the sessions of a converser whose engine is the maximal one
Init ==
    /\ InitWith(SingleFileRequirements)
    /\ model_engine = MAX_MODEL_ENGINE

\* the session state the methods of the controller work on
Session ==
    [conversation |-> conversation,
     previous_code |-> previous_code,
     previous_code_problem |-> previous_code_problem,
     requesting_small_change |-> requesting_small_change]

\* mutant of NextLoopValue: the counter is advanced twice in a pass
NextLoopValue_Twice(it) == it + 2

\* line 579: the next value of the loop variable self.debug_iteration, which
\* is 0 before the loop and 1 in its first pass
NextLoopValue(it) == it + 1

\* mutant of LoopHasNext: one iteration too many
LoopHasNext_OffByOne(it, n) == it <= n

\* line 579: for self.debug_iteration in range(1, self.max_debug_iterations + 1)
LoopHasNext(it, n) == it < n

InLoop == pc = "loop" /\ LoopHasNext(debug_iteration, max_debug_iterations)

\* mutant of PcAfterIteration: the loop goes on after a CodeAndOutput
PcAfterIteration_NeverReturns(is_code_and_output) == "loop"

\* lines 580-582: run_debugging returns as soon as an iteration gives a
\* CodeAndOutput, and goes on with the loop when it gives None
PcAfterIteration(is_code_and_output) ==
    IF is_code_and_output THEN "returned" ELSE "loop"

\* line 502: the response is requested and appended
GetAndAppendAssistantMessage(s, it, c) ==
    [s EXCEPT !.conversation = Append(@, ResponseMessage(it, c))]

\* mutant of CallsUpTo: the code is run before the static check is consulted
CallsUpTo_RunsBeforeStaticCheck(stg) ==
    << "get_response", "extract_code" >>
    \o (IF stg \in {"static", "run", "output", "success"}
        THEN << "run_code" >> ELSE << >>)
    \o (IF stg = "output" THEN << "remove_files" >> ELSE << >>)

\* the calls made up to the stage the iteration left at
CallsUpTo(stg) ==
    << "get_response", "extract_code" >>
    \o (IF stg \in {"run", "output", "success"} THEN << "run_code" >> ELSE << >>)
    \o (IF stg = "output" THEN << "remove_files" >> ELSE << >>)

\* An iteration that ends in _respond_to_issues(iss, c, cp) and `return None`,
\* left at stage stg.
FailedIteration(stg, c, iss, cp) ==
    LET it == NextLoopValue(debug_iteration)
        r == RespondToIssues(GetAndAppendAssistantMessage(Session, it, c),
                             iss, c, cp, it)
    IN  /\ debug_iteration' = it
        /\ conversation' = r.state.conversation
        /\ previous_code' = r.state.previous_code
        /\ previous_code_problem' = r.state.previous_code_problem
        /\ requesting_small_change' = r.state.requesting_small_change
        /\ pc' = IF r.raised THEN "raised" ELSE PcAfterIteration(FALSE)
        /\ stage' = stg
        /\ code' = c
        /\ issues' = iss
        /\ code_problem' = cp
        /\ response_count' = r.response_count
        /\ action' = r.action
        /\ ops' = CallsUpTo(stg) \o r.ops
        /\ requests' = requests + 1
        /\ request_engine' = model_engine
        /\ runs' = IF stg \in {"run", "output"} THEN runs + 1 ELSE runs
        /\ UNCHANGED << max_debug_iterations, returned, supported_packages,
                        output_file_requirements >>
        /\ UNCHANGED << search_vars, latex_vars, choice_vars, products_vars >>

\* What extract_code() raises: IncompleteBlockFailedExtractingBlock for a
\* block that is not closed, FailedExtractingBlock for no block and for
\* more than one.
ExtractionFailures == {"IncompleteBlock", "NoCodeFound", "MultipleCodeBlocks"}

\* mutant of ExtractionCodeProblem: the handler of FailedExtractingBlock
\* comes first and takes every failure
ExtractionCodeProblem_GeneralHandlerFirst(x) == "NotSingleBlock"

\* lines 508-515: the code_problem each handler passes; the handler of the
\* incomplete block is tried first
ExtractionCodeProblem(x) ==
    IF x = "IncompleteBlock" THEN "IncompleteBlock" ELSE "NotSingleBlock"

\* mutant of GetIssueForIncompleteCode: the engine is raised at the maximum too
GetIssueForIncompleteCode_NoMaximum(engine, named) ==
    [model_engine |-> IF engine = MAX_MODEL_ENGINE THEN BeyondMaxEngine
                      ELSE ModelEngine[EngineIndex(engine) + 1],
     issue |-> IssueAbout("IncompleteCode", named)]

\* lines 206-215: _get_issue_for_incomplete_code, for self.model_engine and
\* for what the get_next() of line 209 gives: the new self.model_engine and
\* the issue, whose text names an engine when the engine was raised
GetIssueForIncompleteCode(engine, named) ==
    IF EngineIndex(engine) < EngineIndex(MAX_MODEL_ENGINE)
    THEN [model_engine |-> CHOOSE e \in GetNext(engine) : TRUE,
          issue |-> IssueAbout("IncompleteCode", named)]
    ELSE [model_engine |-> engine,
          issue |-> Issue("IncompleteCode")]

\* line 209: the engine the text names is the get_next() of the engine that
\* line 208 has just assigned
NamedEngines(engine) ==
    IF EngineIndex(engine) < EngineIndex(MAX_MODEL_ENGINE)
    THEN GetNext(CHOOSE e \in GetNext(engine) : TRUE)
    ELSE {"none"}

\* line 513: the issue the handler of FailedExtractingBlock passes
ExtractionIssue(x) == Issue(x)

\* lines 506-515: the code cannot be extracted
FailedExtracting ==
    /\ InLoop
    /\ \E x \in ExtractionFailures :
          \E named \in (IF x = "IncompleteBlock" THEN NamedEngines(model_engine)
                         ELSE {"none"}) :
              LET incomplete == GetIssueForIncompleteCode(model_engine, named)
              IN  /\ FailedIteration("extract", NoneCode,
                                     << IF x = "IncompleteBlock"
                                        THEN incomplete.issue
                                        ELSE ExtractionIssue(x) >>,
                                     ExtractionCodeProblem(x))
                  /\ model_engine' = IF x = "IncompleteBlock"
                                     THEN incomplete.model_engine
                                     ELSE model_engine
                  /\ extraction_failure' = x
                  /\ output' = NoOutput
    /\ created_files' = {}
    /\ import_error' = NoImportError
    /\ import_issue' = NoImportIssue
    /\ exception' = NoException
    /\ UNCHANGED data_folder

\* lines 517-526: the static check gives a non-empty list
FailedStaticCheck ==
    /\ InLoop
    /\ \E lines \in CodeLines :
          LET c == Code(NextLoopValue(debug_iteration), lines)
              iss == StaticCodeCheckIssues(requesting_small_change, c, previous_code)
          IN  /\ iss # << >>
              /\ FailedIteration("static", c, iss, "StaticCheck")
    /\ created_files' = {}
    /\ import_error' = NoImportError
    /\ import_issue' = NoImportIssue
    /\ exception' = NoException
    /\ extraction_failure' = "none"
    /\ output' = NoOutput
    /\ UNCHANGED << data_folder, model_engine >>

\* lines 529-552: run_code raises FailedRunningCode, for a code of one of
\* the given lengths, an exception of excs and, when it is an ImportError,
\* one of import_errors
FailedRunningOn(lengths, excs, import_errors) ==
    /\ InLoop
    /\ \E lines \in lengths, e \in excs :
          \E ie \in (IF "ImportError" \in e THEN import_errors
                      ELSE {NoImportError}) :
              LET c == Code(NextLoopValue(debug_iteration), lines)
              IN  /\ StaticCodeCheckIssues(requesting_small_change, c,
                                           previous_code) = << >>
                  /\ FailedIteration("run", c, << GetRunTimeIssue(e) >>,
                                     "RuntimeError")
                  /\ exception' = e
                  /\ extraction_failure' = "none"
                  /\ output' = NoOutput
                  /\ import_error' = ie
                  /\ import_issue' =
                        IF "ImportError" \in e
                        THEN GetIssueForAllowedPackages(ie, supported_packages)
                        ELSE NoImportIssue
    /\ created_files' = {}
    /\ UNCHANGED << data_folder, model_engine >>

FailedRunning == FailedRunningOn(CodeLines, Exceptions, ImportErrors)

\* lines 556-568: the code ran, and the checks of its output give issues,
\* for a code of one of the given lengths and a run that left one of the
\* given outputs
FailedOutputOn(lengths, outputs) ==
    /\ InLoop
    /\ \E lines \in lengths, o \in outputs :
          LET c == Code(NextLoopValue(debug_iteration), lines)
              output_issues == GetOutputIssues(output_file_requirements, o)
          IN  /\ StaticCodeCheckIssues(requesting_small_change, c, previous_code) = << >>
              /\ output_issues # << >>
              /\ FailedIteration("output", c, output_issues, "OutputFileContent")
              /\ output' = o
              /\ created_files' =
                    CreatedDataFiles(output_file_requirements,
                                     NextLoopValue(debug_iteration), o)
              /\ data_folder' =
                    RemoveCreatedDataFiles(data_folder \cup created_files',
                                           created_files')
    /\ import_error' = NoImportError
    /\ import_issue' = NoImportIssue
    /\ exception' = NoException
    /\ extraction_failure' = "none"
    /\ UNCHANGED model_engine

FailedOutput == FailedOutputOn(CodeLines, RunOutputs)

\* line 570 and lines 581-582: the code ran and no issue was found
SucceededOn(lengths, outputs) ==
    /\ InLoop
    /\ \E lines \in lengths, o \in outputs :
          LET it == NextLoopValue(debug_iteration)
              c == Code(it, lines)
              s == GetAndAppendAssistantMessage(Session, it, c)
          IN  /\ StaticCodeCheckIssues(requesting_small_change, c, previous_code) = << >>
              /\ GetOutputIssues(output_file_requirements, o) = << >>
              /\ debug_iteration' = it
              /\ conversation' = s.conversation
              /\ pc' = PcAfterIteration(TRUE)
              /\ returned' = IF pc' = "returned"
                             THEN [value |-> "CodeAndOutput", code |-> c,
                                   files |-> CreatedDataFiles(
                                                output_file_requirements, it, o)]
                             ELSE returned
              /\ output' = o
              /\ created_files' = CreatedDataFiles(output_file_requirements, it, o)
              /\ data_folder' = data_folder \cup created_files'
              /\ import_error' = NoImportError
              /\ import_issue' = NoImportIssue
              /\ exception' = NoException
              /\ extraction_failure' = "none"
              /\ stage' = "success"
              /\ code' = c
              /\ issues' = << >>
              /\ code_problem' = "none"
              /\ action' = "none"
              /\ ops' = CallsUpTo("success")
              /\ requests' = requests + 1
              /\ request_engine' = model_engine
              /\ runs' = runs + 1
              /\ UNCHANGED << max_debug_iterations, previous_code,
                              previous_code_problem, requesting_small_change,
                              response_count, supported_packages,
                              output_file_requirements, model_engine >>
              /\ UNCHANGED << search_vars, latex_vars, choice_vars,
                              products_vars >>

Succeeded == SucceededOn(CodeLines, RunOutputs)

\* mutant of ConversationAfterExhaustion: rewound first, announced after
ConversationAfterExhaustion_RewindFirst(conv, it) ==
    Append(RewindConversationToFirstResponse(conv), RestartMessage(it))

\* lines 583-586: the restart message is appended and the conversation is
\* rewound
ConversationAfterExhaustion(conv, it) ==
    RewindConversationToFirstResponse(Append(conv, RestartMessage(it)))

\* lines 583-588: the loop is exhausted
Exhausted ==
    /\ pc = "loop"
    /\ ~LoopHasNext(debug_iteration, max_debug_iterations)
    /\ conversation' = ConversationAfterExhaustion(conversation, debug_iteration)
    /\ pc' = "returned"
    /\ returned' = [value |-> "None", code |-> NoneCode, files |-> {}]
    /\ stage' = "exhausted"
    /\ ops' = << "append_user", "rewind" >>
    /\ UNCHANGED << max_debug_iterations, debug_iteration, previous_code,
                    requesting_small_change, previous_code_problem, code,
                    issues, code_problem, response_count, action, requests,
                    runs, data_folder, created_files, supported_packages,
                    import_error, import_issue, exception,
                    extraction_failure, output_file_requirements, output,
                    model_engine, request_engine >>
    /\ UNCHANGED << search_vars, latex_vars, choice_vars, products_vars >>

Next ==
    \/ FailedExtracting
    \/ FailedStaticCheck
    \/ FailedRunning
    \/ FailedOutput
    \/ Succeeded
    \/ Exhausted

Spec == Init /\ [][Next]_vars

(***************************************************************************)
(* The session of a converser with the default fields, whose codes are all *)
(* of one length and fail in the run, with exceptions of classes that have *)
(* several bases among the types of the dispatch table.                    *)
(***************************************************************************)
DispatchInit ==
    /\ Init
    /\ max_debug_iterations = MaxDebugIterations
    /\ previous_code = NoneCode
    /\ supported_packages = {"numpy"}

DispatchNext ==
    \/ FailedStaticCheck
    \/ FailedRunningOn({MaxLines}, ManyBasedExceptions,
                       {[name |-> "ImportError", has_fromlist |-> FALSE,
                         fromlist |-> << >>]})
    \/ Exhausted

DispatchSpec == DispatchInit /\ [][DispatchNext]_vars

(***************************************************************************)
(* The session of a converser with the default fields that declares a      *)
(* content-bearing output file and data files by a wildcard, whose codes   *)
(* are all of one length and run without raising.                          *)
(***************************************************************************)
OutputInit ==
    /\ InitWith(OutputAndDataRequirements)
    /\ model_engine = MAX_MODEL_ENGINE
    /\ max_debug_iterations = MaxDebugIterations
    /\ previous_code = NoneCode
    /\ supported_packages = {"numpy"}

OutputNext ==
    \/ FailedStaticCheck
    \/ FailedOutputOn({MaxLines}, FileOutputs)
    \/ SucceededOn({MaxLines}, FileOutputs)
    \/ Exhausted

OutputSpec == OutputInit /\ [][OutputNext]_vars

(***************************************************************************)
(* The session of a converser constructed without a previous code.        *)
(***************************************************************************)
DefaultInit ==
    /\ Init
    /\ previous_code = NoneCode
    /\ ~requesting_small_change

DefaultSpec == DefaultInit /\ [][Next]_vars

(***************************************************************************)
(* The sessions of a converser constructed with any engine up to the       *)
(* maximal one.                                                            *)
(***************************************************************************)
\* a debugger that is not run: the state the other components start from
DebuggerIdle ==
    /\ DebuggerInitWith(SingleFileRequirements)
    /\ max_debug_iterations = 0
    /\ previous_code = NoneCode
    /\ ~requesting_small_change
    /\ supported_packages = {"numpy"}
    /\ model_engine = MAX_MODEL_ENGINE

EngineInit ==
    /\ InitWith(SingleFileRequirements)
    /\ max_debug_iterations = MaxDebugIterations
    /\ previous_code = NoneCode
    /\ ~requesting_small_change
    /\ supported_packages = {"numpy"}

EngineSpec == EngineInit /\ [][Next]_vars

(***************************************************************************)
(* servers/semantic_scholar.py: the search for citations.  A string is the *)
(* sequence of its characters.                                             *)
(***************************************************************************)
MaxQuery == 4
MaxPapers == 2

\* the characters of a query: letters, a space and a hyphen
QueryChars == {"a", "A", "n", " ", "-"}

\* the characters that \w matches
WordChars == {"a", "A", "n"}

Queries == SeqsUpTo(QueryChars, MaxQuery)

\* re.IGNORECASE
Lower(c) == IF c = "A" THEN "a" ELSE c

\* lines 109-111: the words of the tuple that these characters spell, in the
\* order of the tuple ('a' comes before 'an')
words_to_remove_in_case_of_zero_citation_error ==
    << << "a" >>, << "a", "n" >> >>

\* line 20: \b{word}\b matches at position i of the string
MatchAt(string, word, i) ==
    /\ i + Len(word) - 1 <= Len(string)
    /\ \A k \in 1..Len(word) : Lower(string[i + k - 1]) = word[k]
    /\ i = 1 \/ string[i - 1] \notin WordChars
    /\ i + Len(word) > Len(string) \/ string[i + Len(word)] \notin WordChars

\* line 20: the end of what \s* matches from position j on
RECURSIVE AfterSpaces(_, _)
AfterSpaces(string, j) ==
    IF j <= Len(string) /\ string[j] = " "
    THEN AfterSpaces(string, j + 1)
    ELSE j

\* mutant of RemoveWordFrom: only the first occurrence is removed
RemoveWordFrom_FirstOnly(string, word, i) ==
    IF \E j \in 1..Len(string) : MatchAt(string, word, j)
    THEN LET j == CHOOSE j \in 1..Len(string) :
                    /\ MatchAt(string, word, j)
                    /\ \A k \in 1..(j - 1) : ~MatchAt(string, word, k)
         IN  SubSeq(string, 1, j - 1)
             \o SubSeq(string, AfterSpaces(string, j + Len(word)), Len(string))
    ELSE string

\* line 21: re.sub scans the string from position i on and drops every match
RECURSIVE RemoveWordFrom(_, _, _)
RemoveWordFrom(string, word, i) ==
    IF i > Len(string) THEN << >>
    ELSE IF MatchAt(string, word, i)
         THEN RemoveWordFrom(string, word, AfterSpaces(string, i + Len(word)))
         ELSE << string[i] >> \o RemoveWordFrom(string, word, i + 1)

\* lines 18-21: remove_word
remove_word(string, word) == RemoveWordFrom(string, word, 1)

\* mutant of RedactQuery: the last word of the tuple that changes the query
RedactQuery_LastWord(q) ==
    LET words == words_to_remove_in_case_of_zero_citation_error
        hits == {i \in 1..Len(words) : remove_word(q, words[i]) # q}
    IN  IF hits = {}
        THEN [found |-> FALSE, query |-> q, word |-> << >>]
        ELSE LET i == CHOOSE i \in hits : \A j \in hits : j <= i
             IN  [found |-> TRUE, query |-> remove_word(q, words[i]),
                  word |-> words[i]]

\* lines 135-143: the for loop: the first word of the tuple whose removal
\* changes the query is removed; the else branch is taken when there is none
RedactQuery(q) ==
    LET words == words_to_remove_in_case_of_zero_citation_error
        hits == {i \in 1..Len(words) : remove_word(q, words[i]) # q}
    IN  IF hits = {}
        THEN [found |-> FALSE, query |-> q, word |-> << >>]
        ELSE LET i == CHOOSE i \in hits : \A j \in hits : i <= j
             IN  [found |-> TRUE, query |-> remove_word(q, words[i]),
                  word |-> words[i]]

\* what requests.get() may give: a status, and for status 200 a body with
\* or without the key "data", whose papers have a bibtex id or the id 'None'
Responses ==
    {[status_code |-> s, has_data |-> FALSE, papers |-> << >>] :
        s \in {200, 404, 500}}
    \cup {[status_code |-> 200, has_data |-> TRUE, papers |-> p] :
            p \in SeqsUpTo({"id", "None"}, MaxPapers)}

\* mutant of IsServerError: only the statuses from 500 on are errors
IsServerError_From500(r) == r.status_code >= 500

\* line 122
IsServerError(r) == r.status_code # 200

\* lines 125-129
PapersOf(r) == IF r.has_data THEN r.papers ELSE << >>

\* rows, the number of papers asked for
Rows == 1

\* lines 132-133
FilteredPapers(papers) ==
    LET good == SelectSeq(papers, LAMBDA paper : paper # "None")
    IN  SubSeq(good, 1, IF Len(good) < Rows THEN Len(good) ELSE Rows)

\* line 120, for a response r
Request(r) ==
    /\ search_pc = "request"
    /\ search_requests' = search_requests + 1
    /\ response' = r
    /\ UNCHANGED << debugger_vars, latex_vars, choice_vars, products_vars >>

\* lines 122-123: the status is not 200
SearchServerError ==
    \E r \in Responses :
        /\ Request(r)
        /\ IsServerError(r)
        /\ search_pc' = "raised"
        /\ UNCHANGED << query, search_result, removed_word >>

\* lines 131-133: there are papers
SearchFound ==
    \E r \in Responses :
        /\ Request(r)
        /\ ~IsServerError(r)
        /\ Len(PapersOf(r)) > 0
        /\ search_pc' = "returned"
        /\ search_result' = [returned |-> TRUE,
                             papers |-> FilteredPapers(PapersOf(r))]
        /\ UNCHANGED << query, removed_word >>

\* lines 135-140: no paper, and a word to remove: the loop goes on
SearchRedact ==
    \E r \in Responses :
        /\ Request(r)
        /\ ~IsServerError(r)
        /\ Len(PapersOf(r)) = 0
        /\ RedactQuery(query).found
        /\ query' = RedactQuery(query).query
        /\ removed_word' = RedactQuery(query).word
        /\ search_pc' = "request"
        /\ UNCHANGED search_result

\* lines 141-143: no paper, and no word to remove
SearchGiveUp ==
    \E r \in Responses :
        /\ Request(r)
        /\ ~IsServerError(r)
        /\ Len(PapersOf(r)) = 0
        /\ ~RedactQuery(query).found
        /\ search_pc' = "returned"
        /\ search_result' = [returned |-> TRUE, papers |-> << >>]
        /\ UNCHANGED << query, removed_word >>

\* _get_server_response is called with a query
SearchInit ==
    /\ DebuggerIdle
    /\ LatexIdle
    /\ ChoiceIdle
    /\ ProductsIdle
    /\ query \in Queries
    /\ search_pc = "request"
    /\ search_requests = 0
    /\ search_result = [returned |-> FALSE, papers |-> << >>]
    /\ response = [status_code |-> 0, has_data |-> FALSE, papers |-> << >>]
    /\ removed_word = << >>

SearchNext ==
    \/ SearchServerError
    \/ SearchFound
    \/ SearchRedact
    \/ SearchGiveUp

SearchSpec == SearchInit /\ [][SearchNext]_vars

\* every requests.get() returns: a pass of the loop that has begun ends
SearchLiveSpec == SearchSpec /\ WF_vars(SearchNext)

(***************************************************************************)
(* latex/latex_to_pdf.py: save_latex_and_compile_to_pdf.                   *)
(***************************************************************************)
\* lines 113-115: the files _move_latex_and_pdf_to_output_directory looks for
OutputFiles == {"pdf", "tex", "bib"}

\* lines 69-76: the files written before the first run
WrittenFiles(with_bib) == {"tex"} \cup (IF with_bib THEN {"bib"} ELSE {})

\* lines 105-115: the files of the temporary directory that are moved
MovedBy(directory_given, files) ==
    IF directory_given THEN files \cap OutputFiles ELSE {}

\* lines 105-115: _move_latex_and_pdf_to_output_directory
MoveLatexAndPdfToOutputDirectory ==
    /\ moved_files' = moved_files \cup MovedBy(output_directory, temp_directory)
    /\ temp_directory' = temp_directory \ MovedBy(output_directory, temp_directory)

\* what a step of the compilation leaves alone
LatexFrame ==
    UNCHANGED << references, output_directory, raise_on_too_wide,
                 debugger_vars, search_vars, choice_vars, products_vars >>

\* lines 62-81: the files are written and the first pdflatex run fails
FirstRunFails ==
    /\ latex_pc = "start"
    /\ temp_directory' = WrittenFiles(references)
    /\ latex_pc' = "raised"
    /\ latex_exception' = "LatexCompilationError"
    /\ UNCHANGED << pdflatex_output, moved_files >>
    /\ LatexFrame

\* lines 62-83: the files are written and the first pdflatex run ends with
\* status 0; it leaves a pdf unless the document has no page, and its
\* output may report an overfull box
FirstRunSucceeds ==
    /\ latex_pc = "start"
    /\ \E has_pdf \in BOOLEAN, overfull \in BOOLEAN :
          /\ temp_directory' = WrittenFiles(references)
                                  \cup (IF has_pdf THEN {"pdf"} ELSE {})
          /\ pdflatex_output' = overfull
    /\ latex_pc' = IF references THEN "bibtex" ELSE "watermark"
    /\ UNCHANGED << moved_files, latex_exception >>
    /\ LatexFrame

\* lines 85-92: bibtex or one of the two later runs fails
BibtexFails ==
    /\ latex_pc = "bibtex"
    /\ MoveLatexAndPdfToOutputDirectory
    /\ latex_pc' = "raised"
    /\ latex_exception' = "CalledProcessError"
    /\ UNCHANGED pdflatex_output
    /\ LatexFrame

\* lines 85-89: bibtex and the two later runs end with status 0
BibtexSucceeds ==
    /\ latex_pc = "bibtex"
    /\ latex_pc' = "watermark"
    /\ UNCHANGED << temp_directory, moved_files, pdflatex_output,
                    latex_exception >>
    /\ LatexFrame

\* line 94 and lines 46-56: add_watermark_to_pdf raises: open() when there
\* is no pdf, the pdf reader or writer otherwise
WatermarkFails ==
    /\ latex_pc = "watermark"
    /\ latex_pc' = "raised"
    /\ latex_exception' = "WatermarkError"
    /\ UNCHANGED << temp_directory, moved_files, pdflatex_output >>
    /\ LatexFrame

\* lines 94-102: the watermark is added, the files are moved, and the call
\* raises TooWideTableOrText or returns
WatermarkedAndMoved ==
    /\ latex_pc = "watermark"
    /\ "pdf" \in temp_directory
    /\ MoveLatexAndPdfToOutputDirectory
    /\ latex_pc' = IF pdflatex_output /\ raise_on_too_wide
                   THEN "raised" ELSE "returned"
    /\ latex_exception' = IF pdflatex_output /\ raise_on_too_wide
                          THEN "TooWideTableOrText" ELSE "none"
    /\ UNCHANGED pdflatex_output
    /\ LatexFrame

\* save_latex_and_compile_to_pdf is called
LatexInit ==
    /\ DebuggerIdle
    /\ SearchIdle
    /\ ChoiceIdle
    /\ ProductsIdle
    /\ latex_pc = "start"
    /\ references \in BOOLEAN
    /\ output_directory \in BOOLEAN
    /\ raise_on_too_wide \in BOOLEAN
    /\ pdflatex_output = FALSE
    /\ temp_directory = {}
    /\ moved_files = {}
    /\ latex_exception = "none"

LatexNext ==
    \/ FirstRunFails
    \/ FirstRunSucceeds
    \/ BibtexFails
    \/ BibtexSucceeds
    \/ WatermarkFails
    \/ WatermarkedAndMoved

LatexSpec == LatexInit /\ [][LatexNext]_vars

(***************************************************************************)
(* base_steps/request_multi_choice.py: the answer to a multi-choice        *)
(* question.  A string is the sequence of its characters.                  *)
(***************************************************************************)
MaxText == 3
MaxChoices == 3

\* the choices: single characters and a choice that holds another one
ChoiceStrings == {<< "1" >>, << "2" >>, << "1", "2" >>}

\* possible_choices: tuples of different choices
ChoiceTuples ==
    {choices \in SeqsUpTo(ChoiceStrings, MaxChoices) :
        /\ Len(choices) >= 2
        /\ \A i, j \in 1..Len(choices) : choices[i] = choices[j] => i = j}

Texts == SeqsUpTo({"1", "2", "x"}, MaxText)

\* line 36: choice in response
Contains(text, choice) ==
    \E i \in 0..(Len(text) - Len(choice)) :
        SubSeq(text, i + 1, i + Len(choice)) = choice

\* mutant of GetChosenChoiceFromResponse: the first choice found is taken
GetChosenChoiceFromResponse_FirstFound(choices, text) ==
    LET choices_in_response ==
            SelectSeq(choices, LAMBDA choice : Contains(text, choice))
    IN  IF Len(choices_in_response) >= 1
        THEN [raised |-> FALSE, choice |-> choices_in_response[1]]
        ELSE [raised |-> TRUE, choice |-> << >>]

\* lines 35-39: _get_chosen_choice_from_response
GetChosenChoiceFromResponse(choices, text) ==
    LET choices_in_response ==
            SelectSeq(choices, LAMBDA choice : Contains(text, choice))
    IN  IF Len(choices_in_response) = 1
        THEN [raised |-> FALSE, choice |-> choices_in_response[1]]
        ELSE [raised |-> TRUE, choice |-> << >>]

\* lines 41-43: the choice is found and recorded
ChoiceAccepted ==
    /\ choice_pc = "check"
    /\ ~GetChosenChoiceFromResponse(possible_choices, extracted_text).raised
    /\ valid_result' =
          GetChosenChoiceFromResponse(possible_choices, extracted_text).choice
    /\ choice_pc' = "returned"
    /\ UNCHANGED << possible_choices, extracted_text, self_response_error,
                    debugger_vars, search_vars, latex_vars, products_vars >>

\* lines 39 and 42: _raise_self_response_error(self.choice_instructions)
\* raises, and line 43 is not reached
ChoiceRejected ==
    /\ choice_pc = "check"
    /\ GetChosenChoiceFromResponse(possible_choices, extracted_text).raised
    /\ self_response_error' = "choice_instructions"
    /\ choice_pc' = "raised"
    /\ UNCHANGED << possible_choices, extracted_text, valid_result,
                    debugger_vars, search_vars, latex_vars, products_vars >>

\* _check_extracted_text_and_update_valid_result is called, with or without
\* an earlier valid result
ChoiceInit ==
    /\ DebuggerIdle
    /\ SearchIdle
    /\ LatexIdle
    /\ ProductsIdle
    /\ possible_choices \in ChoiceTuples
    /\ extracted_text \in Texts
    /\ valid_result \in {<< >>, << "2" >>}
    /\ choice_pc = "check"
    /\ self_response_error = "none"

ChoiceNext ==
    \/ ChoiceAccepted
    \/ ChoiceRejected

ChoiceSpec == ChoiceInit /\ [][ChoiceNext]_vars

(***************************************************************************)
(* scientific_products.py: ScientificProducts.  A dict is a function of    *)
(* its keys.                                                               *)
(***************************************************************************)
SectionNames == {"abstract", "results"}

\* the content of a section: its text and the tables inserted in it
SectionContents == {[text |-> t, tables |-> << >>] : t \in {"text_1", "text_2"}}

\* the dicts from section names to the values of V
SectionDicts(V) == UNION {[names -> V] : names \in SUBSET SectionNames}

\* lines 46-52: cited_paper_sections
CitedPaperSections(cited_and_citations) ==
    [section_name \in DOMAIN cited_and_citations |->
        cited_and_citations[section_name][1]]

\* lines 62-85: add_tables_to_paper_section puts every table of self.tables
\* into the section
AddTablesToPaperSection(section_content, tbls) ==
    [section_content EXCEPT !.tables = @ \o tbls]

\* lines 54-60: tabled_paper_sections
TabledPaperSections(ready_to_be_tabled, tbls) ==
    [section_name \in DOMAIN ready_to_be_tabled |->
        AddTablesToPaperSection(ready_to_be_tabled[section_name], tbls)]

\* mutant of MostUpdatedPaperSections: the cited version is preferred
MostUpdatedPaperSections_CitedPreferred(sections, cited_and_citations, ready_to_be_tabled, tbls) ==
    [section_name \in DOMAIN sections |->
        IF section_name \in DOMAIN CitedPaperSections(cited_and_citations)
        THEN CitedPaperSections(cited_and_citations)[section_name]
        ELSE IF section_name \in DOMAIN ready_to_be_tabled
             THEN TabledPaperSections(ready_to_be_tabled, tbls)[section_name]
             ELSE sections[section_name]]

\* lines 87-96: most_updated_paper_sections
MostUpdatedPaperSections(sections, cited_and_citations, ready_to_be_tabled, tbls) ==
    [section_name \in DOMAIN sections |->
        IF section_name \in DOMAIN ready_to_be_tabled
        THEN TabledPaperSections(ready_to_be_tabled, tbls)[section_name]
        ELSE IF section_name \in DOMAIN CitedPaperSections(cited_and_citations)
             THEN CitedPaperSections(cited_and_citations)[section_name]
             ELSE sections[section_name]]

\* the property is read
GetMostUpdatedPaperSections ==
    /\ products_pc = "get"
    /\ most_updated_paper_sections' =
          MostUpdatedPaperSections(paper_sections,
                                   cited_paper_sections_and_citations,
                                   ready_to_be_tabled_paper_sections, tables)
    /\ products_pc' = "got"
    /\ UNCHANGED << paper_sections, cited_paper_sections_and_citations,
                    ready_to_be_tabled_paper_sections, tables,
                    debugger_vars, search_vars, latex_vars, choice_vars >>

\* a ScientificProducts with any sections, cited sections, sections ready
\* to be tabled, and with or without tables
ProductsInit ==
    /\ DebuggerIdle
    /\ SearchIdle
    /\ LatexIdle
    /\ ChoiceIdle
    /\ paper_sections \in SectionDicts(SectionContents)
    /\ cited_paper_sections_and_citations
          \in SectionDicts(SectionContents \X {{"citation_1"}})
    /\ ready_to_be_tabled_paper_sections \in SectionDicts(SectionContents)
    /\ tables \in {<< >>, << "table_1" >>}
    /\ products_pc = "get"
    /\ most_updated_paper_sections = << >>

ProductsNext == GetMostUpdatedPaperSections

ProductsSpec == ProductsInit /\ [][ProductsNext]_vars

TypeOK ==
    /\ debug_iteration \in 0..max_debug_iterations
    /\ pc \in {"loop", "returned", "raised"}
    /\ requesting_small_change \in BOOLEAN
    /\ previous_code_problem \in CodeProblems
    /\ action \in {"none", "repost", "regenerate", "leave"}


(***************************************************************************)
(* Properties.                                                             *)
(***************************************************************************)
\* a step that is one pass of the loop of run_debugging
IterationStep == debug_iteration' = debug_iteration + 1

\* the state right after an iteration that ended in _respond_to_issues
AfterFailedIteration == pc = "loop" /\ code_problem # "none"

Last(seq) == seq[Len(seq)]

\* C1: the iteration whose code is extracted, passes the static check, runs
\* and yields no issue makes run_debugging return the CodeAndOutput of that
\* iteration at once: the only calls of that iteration are the request, the
\* extraction and the run, the response is the last message, one response
\* was requested per iteration, and once a CodeAndOutput is returned
\* nothing is requested, appended or rewound any more.
C1_CleanIterationReturnsAtOnce ==
    /\ [](stage = "success" =>
            /\ pc = "returned"
            /\ returned.value = "CodeAndOutput"
            /\ returned.code = code
            /\ code.id = debug_iteration
            /\ requests = debug_iteration
            /\ ops = << "get_response", "extract_code", "run_code" >>
            /\ Last(conversation) = ResponseMessage(debug_iteration, code))
    /\ [][returned.value = "CodeAndOutput" =>
            UNCHANGED << conversation, requests, runs, debug_iteration >>]_vars

C1_Witness ==
    /\ returned.value = "CodeAndOutput"
    /\ debug_iteration = 2
    /\ Len(conversation) = Len(Prefix) + 3

C4_FirstResponseAction ==
    (code_problem # "none" /\ response_count = 0) =>
        /\ action \in {"repost", "regenerate", "leave"}
        /\ (code_problem = "IncompleteBlock" => action = "regenerate")
        /\ (code_problem = "NotSingleBlock" => action = "leave")
        /\ (code_problem \in {"StaticCheck", "RuntimeError", "OutputFileContent"}
                => action = "repost")
        /\ code_problem \in {"IncompleteBlock", "NotSingleBlock", "StaticCheck",
                             "RuntimeError", "OutputFileContent"}

C4_Witness ==
    /\ response_count = 0
    /\ code_problem = "StaticCheck"
    /\ action = "repost"
    /\ pc = "loop"

\* C5: at every call of _respond_to_issues on a later response
\* (response_count > 0), RuntimeError and OutputFileContent select repost,
\* NotSingleBlock, IncompleteBlock and StaticCheck select regenerate, and
\* leave is not selected.
C5_LaterResponseAction ==
    (code_problem # "none" /\ response_count > 0) =>
        /\ (code_problem \in {"RuntimeError", "OutputFileContent"}
                => action = "repost")
        /\ (code_problem \in {"NotSingleBlock", "IncompleteBlock", "StaticCheck"}
                => action = "regenerate")
        /\ code_problem # "NoCode"
        /\ action # "leave"

C5_Witness ==
    /\ response_count > 0
    /\ code_problem = "StaticCheck"
    /\ action = "regenerate"
    /\ pc = "loop"

\* how much of the conversation an action rewrites: leave keeps it all,
\* regenerate deletes the rejected answer, repost replaces the history
Disruption(act) ==
    CASE act = "leave" -> 0
      [] act = "regenerate" -> 1
      [] act = "repost" -> 2

\* C6: on a later response (response_count > 0), the action selected for a
\* failure of kind B is repost, or is at least as disruptive as the action
\* selected for any less severe kind A.
C6_SeverityOrdering ==
    (code_problem # "none" /\ response_count > 0) =>
        \A A \in CodeProblems :
            Severity(A) < Severity(code_problem) =>
                \/ action = "repost"
                \/ Disruption(action)
                      >= Disruption(SelectAction(response_count, A))

C6_Witness ==
    /\ response_count > 0
    /\ code_problem = "OutputFileContent"
    /\ action = "repost"
    /\ previous_code_problem = "OutputFileContent"

C9_LeaveEffect ==
    [][(IterationStep /\ Len(conversation) = Len(Prefix)
          /\ issues' = << Issue("MultipleCodeBlocks") >>) =>
          /\ action' = "leave"
          /\ code_problem' = "NotSingleBlock"
          /\ conversation' =
                conversation \o << ResponseMessage(debug_iteration', NoneCode),
                                   UserMessage(debug_iteration') >>
          /\ runs' = runs
          /\ ops' = << "get_response", "extract_code", "append_user" >>
          /\ requests' = requests + 1
          /\ pc' = "loop"
          /\ UNCHANGED << previous_code, previous_code_problem >>]_vars

C9_Witness ==
    /\ AfterFailedIteration
    /\ action = "leave"
    /\ issues = << Issue("MultipleCodeBlocks") >>
    /\ debug_iteration = 1

C11_StaticCheckRejectsOnlyShorterCode ==
    [][(IterationStep /\ code' # NoneCode) =>
          ((stage' = "static") <=>
              (requesting_small_change
                  /\ IsShorterThanModification(code', previous_code)))]_vars

\* the state after a first iteration whose code ran and wrote nothing
FirstCodeWroteNothing ==
    /\ debug_iteration = 1
    /\ stage = "output"
    /\ created_files = {}
    /\ issues[1].kind = "NumFilesCreated"

\* C12: with one required output file, when the first code runs and writes
\* nothing, a missing-file issue is raised with classification
\* OutputFileContent and the action is repost; with max_debug_iterations of
\* at least 2 the next response is requested, its code is not stopped by the
\* static check, and when it writes the file and no issue is found,
\* run_debugging returns at iteration 2 a CodeAndOutput with that file.
C12_TwoStepConvergence ==
    /\ [](FirstCodeWroteNothing =>
            /\ code_problem = "OutputFileContent"
            /\ action = "repost"
            /\ pc = "loop"
            /\ ~requesting_small_change
            /\ (max_debug_iterations >= 2 => InLoop))
    /\ [][(FirstCodeWroteNothing /\ IterationStep /\ code' # NoneCode) =>
            stage' # "static"]_vars
    /\ [][(FirstCodeWroteNothing /\ IterationStep /\ stage' = "success") =>
            /\ returned'.value = "CodeAndOutput"
            /\ debug_iteration' = 2
            /\ returned'.files = {[name |-> "out.csv", it |-> 2]}
            /\ returned'.files \subseteq data_folder']_vars

C12_Witness ==
    /\ returned.value = "CodeAndOutput"
    /\ debug_iteration = 2
    /\ returned.files # {}
    /\ previous_code_problem = "OutputFileContent"
    /\ previous_code = Code(1, MaxLines)
    /\ code = Code(2, MaxLines - 2)

\* C13: when a run completes and the checks of its output give an issue,
\* every data file that run created is removed from the data folder, and
\* this is done before the conversation is edited and the corrective message
\* is appended; when run_debugging returns a CodeAndOutput, no file of that
\* run was removed: its files are in the data folder.
C13_ArtifactDiscard ==
    /\ (stage = "output" =>
            /\ created_files \cap data_folder = {}
            /\ SubSeq(ops, 1, 4) =
                  << "get_response", "extract_code", "run_code", "remove_files" >>
            /\ Last(ops) \in {"append_user", "delete_messages"})
    /\ (returned.value = "CodeAndOutput" =>
            /\ returned.files = created_files
            /\ created_files \subseteq data_folder
            /\ "remove_files" \notin {ops[i] : i \in 1..Len(ops)})
    /\ (returned.value # "CodeAndOutput" => data_folder = {})

C13_Witness ==
    /\ stage = "output"
    /\ created_files # {}
    /\ data_folder = {}
    /\ pc = "loop"

\* C14: no issue ends a session early: run_debugging returns None only after
\* max_debug_iterations iterations; after an iteration k < max_debug_iterations
\* that ended at the extraction, the static check, the run or the output
\* checks, the loop goes on with iteration k + 1; at most
\* max_debug_iterations responses are requested, and the session ends by
\* returning.
C14_NoIssueEndsSessionEarly ==
    /\ (returned.value = "None" =>
            debug_iteration = max_debug_iterations /\ requests = max_debug_iterations)
    /\ ((stage \in {"extract", "static", "run", "output"}
            /\ debug_iteration < max_debug_iterations) => InLoop)
    /\ requests <= max_debug_iterations
    /\ pc # "raised"

\* C15: one response is requested per iteration and the counter counts them:
\* it is 1 for the first response, it increases by exactly 1 with every
\* request, and while a response is processed it lies in
\* 1..max_debug_iterations.
C15_IterationCounter ==
    /\ [](requests = debug_iteration /\ debug_iteration <= max_debug_iterations)
    /\ [](stage \in {"extract", "static", "run", "output", "success"} =>
            debug_iteration \in 1..max_debug_iterations)
    /\ [][(requests' # requests \/ debug_iteration' # debug_iteration) =>
            /\ requests' = requests + 1
            /\ debug_iteration' = debug_iteration + 1
            /\ (requests = 0 => debug_iteration' = 1)
            /\ debug_iteration' \in 1..max_debug_iterations
            /\ Cardinality({i \in 1..Len(ops') : ops'[i] = "get_response"}) = 1]_vars

C15_Witness ==
    /\ pc = "loop"
    /\ debug_iteration = MaxDebugIterations
    /\ requests = MaxDebugIterations
    /\ stage = "run"

\* C16 as stated: at the start of every iteration previous_code_problem is
\* the classification of the most recent issue of the session, or NoCode
\* when no issue has occurred yet.
C16_Original_ProblemOfMostRecentIssue ==
    pc = "loop" =>
        previous_code_problem =
            (IF code_problem = "none" THEN "NoCode" ELSE code_problem)

\* C16 as amended: previous_code_problem is the classification of the most
\* recent issue that was handled by repost, or NoCode when no repost has
\* occurred yet: an iteration handled by repost sets it to the
\* classification of its issue, and an iteration handled by regenerate or
\* leave leaves it as it was.
C16_ProblemOfMostRecentRepost ==
    /\ [](previous_code.id = 0 => previous_code_problem = "NoCode")
    /\ [](previous_code.id > 0 =>
            previous_code_problem
                \in {"StaticCheck", "RuntimeError", "OutputFileContent"})
    /\ [][requests' # requests =>
            previous_code_problem' =
                (IF action' = "repost" THEN code_problem'
                 ELSE previous_code_problem)]_vars

C16_Witness ==
    /\ pc = "loop"
    /\ action = "regenerate"
    /\ code_problem = "IncompleteBlock"
    /\ previous_code_problem = "RuntimeError"

\* C17: the issue for an ImportError holds the hint naming the correct
\* module if and only if the failed import names exactly one symbol, the
\* symbol is a key of the mis-import table and the top-level package of the
\* module of the table is in supported_packages; otherwise it is the plain
\* issue; in both cases it lists the supported packages.
C17_KnownMisImportHint ==
    (stage = "run" /\ import_error.name = "ImportError") =>
        /\ import_issue.hint <=>
              /\ import_error.has_fromlist
              /\ Len(import_error.fromlist) = 1
              /\ import_error.fromlist[1] = "Mediation"
              /\ "statsmodels" \in supported_packages
        /\ import_issue.hint =>
              /\ import_issue.var = "Mediation"
              /\ import_issue.correct_package
                    = << "statsmodels", "stats", "mediation" >>
        /\ ~import_issue.hint =>
              import_issue.var = "" /\ import_issue.correct_package = << >>
        /\ import_issue.supported_packages = supported_packages
        /\ issues[1].kind = "ImportError"
        /\ code_problem = "RuntimeError"

C17_Witness ==
    /\ stage = "run"
    /\ import_error.name = "ImportError"
    /\ import_issue.hint
    /\ import_issue.supported_packages = {"numpy", "statsmodels"}

\* the number of times call is made in the sequence of calls
Count(calls, call) == Cardinality({i \in 1..Len(calls) : calls[i] = call})

\* C23: an iteration fetches a response and extracts; it takes exactly one
\* exit; the code is run only if it was extracted and the static check list
\* is empty; the output checks are made only if the run raised no failure; a
\* failed iteration selects an action exactly once, with the classification
\* of the stage that failed.
C23_StageOrder ==
    [][IterationStep =>
        /\ stage' \in {"extract", "static", "run", "output", "success"}
        /\ Len(ops') >= 2
        /\ SubSeq(ops', 1, 2) = << "get_response", "extract_code" >>
        /\ Count(ops', "get_response") = 1
        /\ Count(ops', "run_code") = (IF stage' \in {"run", "output", "success"} THEN 1 ELSE 0)
        /\ runs' = runs + Count(ops', "run_code")
        /\ Count(ops', "run_code") = 1 =>
              /\ ops'[3] = "run_code"
              /\ code' # NoneCode
              /\ StaticCodeCheckIssues(requesting_small_change, code',
                                       previous_code) = << >>
        /\ stage' = "extract" =>
              /\ code' = NoneCode
              /\ code_problem' \in {"IncompleteBlock", "NotSingleBlock"}
        /\ stage' = "static" =>
              /\ code_problem' = "StaticCheck"
              /\ issues' = StaticCodeCheckIssues(requesting_small_change, code',
                                                 previous_code)
              /\ issues' # << >>
        /\ stage' = "run" =>
              /\ code_problem' = "RuntimeError"
              /\ Len(issues') = 1
              /\ created_files' = {}
              /\ "remove_files" \notin {ops'[i] : i \in 1..Len(ops')}
        /\ stage' = "output" =>
              /\ code_problem' = "OutputFileContent"
              /\ issues' # << >>
        /\ stage' = "success" =>
              /\ code_problem' = "none"
              /\ action' = "none"
              /\ issues' = << >>
              /\ ops' = << "get_response", "extract_code", "run_code" >>
        /\ stage' # "success" =>
              /\ action' = SelectAction(GetResponseCount(
                                Append(conversation, ResponseMessage(debug_iteration', code'))),
                                code_problem')
              /\ Count(ops', "append_user") = (IF pc' = "raised" THEN 0 ELSE 1)
              /\ Count(ops', "append_surrogate") = (IF action' = "repost" THEN 1 ELSE 0)
              /\ Count(ops', "delete_messages")
                    = (IF action' = "regenerate" /\ pc' # "raised" THEN 1 ELSE 0)]_vars

C23_Witness ==
    /\ pc = "loop"
    /\ stage = "output"
    /\ code_problem = "OutputFileContent"
    /\ action = "repost"
    /\ debug_iteration = 2

\* the position in the dispatch table of the first type the exception is an
\* instance of, and 0 when it is an instance of none
FirstMatch(e) ==
    IF e \cap ExceptionTypes = {} THEN 0
    ELSE CHOOSE i \in 1..Len(ExceptionsToFuncs) :
            /\ ExceptionsToFuncs[i] \in e
            /\ \A j \in 1..Len(ExceptionsToFuncs) :
                  ExceptionsToFuncs[j] \in e => i <= j

\* C24: an execution failure yields exactly one issue, that of the first
\* entry of the dispatch table the exception matches, or the generic one when
\* it matches none; the issue is answered with classification RuntimeError
\* and the session goes on.
C24_ClassifierDispatch ==
    (exception # NoException \/ stage = "run") =>
        /\ exception # NoException
        /\ stage \in {"run", "exhausted"}
        /\ Len(issues) = 1
        /\ issues[1].kind =
              (IF FirstMatch(exception) = 0 THEN "RegularExceptionOrWarning"
               ELSE ExceptionsToFuncs[FirstMatch(exception)])
        /\ code_problem = "RuntimeError"
        /\ action = SelectAction(response_count, "RuntimeError")
        /\ pc \in {"loop", "returned"}
        /\ pc = "returned" => returned.value = "None"

C24_Witness ==
    /\ exception = {"FileNotFoundError", "RunUtilsError"}
    /\ stage = "run"
    /\ issues = << Issue("FileNotFoundError") >>
    /\ pc = "loop"

C24_WitnessGeneric ==
    /\ exception = {}
    /\ stage = "run"
    /\ issues = << Issue("RegularExceptionOrWarning") >>
    /\ pc = "loop"

\* C25: an incomplete code block is answered with classification
\* IncompleteBlock, every other extraction failure with NotSingleBlock, and
\* NoCode is never passed to the action selection.
C25_ExtractionFailures ==
    /\ code_problem # "NoCode"
    /\ (stage = "extract" \/ extraction_failure # "none") =>
          /\ extraction_failure \in ExtractionFailures
          /\ stage \in {"extract", "exhausted"}
          /\ code = NoneCode
          /\ code_problem =
                (IF extraction_failure = "IncompleteBlock"
                 THEN "IncompleteBlock" ELSE "NotSingleBlock")
          /\ action = SelectAction(response_count, code_problem)
    /\ code_problem \in {"IncompleteBlock", "NotSingleBlock"} =>
          extraction_failure # "none"

C25_Witness ==
    /\ stage = "extract"
    /\ extraction_failure = "IncompleteBlock"
    /\ code_problem = "IncompleteBlock"
    /\ response_count = 1
    /\ pc = "loop"

\* the messages after the pre-session prefix
AfterPrefix(conv) == SubSeq(conv, Len(Prefix) + 1, Len(conv))

\* C26: each time a response is requested, the conversation is the prefix
\* followed by nothing or by one assistant (or surrogate) message and one
\* corrective user message; it ends with a user message; after a regenerate
\* nothing of the iteration is left in it, after a repost the rejected answer
\* is replaced by the re-posted code, and after a leave the answer is kept.
C26_ConversationShapeAtRequest ==
    InLoop =>
        /\ SubSeq(conversation, 1, Len(Prefix)) = Prefix
        /\ Len(AfterPrefix(conversation)) \in {0, 2}
        /\ Last(conversation).role = "USER"
        /\ Cardinality({i \in 1..Len(conversation) :
                            conversation[i].kind = "issues"}) <= 1
        /\ Len(AfterPrefix(conversation)) = 2 =>
              /\ AfterPrefix(conversation)[1].role \in {"ASSISTANT", "SURROGATE"}
              /\ AfterPrefix(conversation)[2].kind = "issues"
              /\ AfterPrefix(conversation)[2].it = AfterPrefix(conversation)[1].it
        /\ action = "regenerate" =>
              \A i \in 1..Len(conversation) : conversation[i].it # debug_iteration
        /\ action = "repost" =>
              AfterPrefix(conversation) =
                  << SurrogateMessage(debug_iteration, code),
                     UserMessage(debug_iteration) >>
        /\ action = "leave" =>
              AfterPrefix(conversation) =
                  << ResponseMessage(debug_iteration, code),
                     UserMessage(debug_iteration) >>

C26_Witness ==
    /\ InLoop
    /\ action = "regenerate"
    /\ debug_iteration = 2
    /\ Len(conversation) = Len(Prefix) + 2
    /\ conversation[Len(Prefix) + 1].role = "SURROGATE"
    /\ conversation[Len(Prefix) + 1].it = 1

\* the number of issues of the kind in the batch that name the file or the
\* requirement
CountIssues(kind, about) ==
    Cardinality({i \in 1..Len(issues) :
                    issues[i].kind = kind /\ issues[i].about = about})

\* the requirements with fewer created files than their minimal_count
UnmetRequirements ==
    {i \in 1..Len(output_file_requirements) :
        Len(output.files[i]) < output_file_requirements[i].minimal_count}

\* C27: after a run that raised no execution failure there is exactly one
\* missing-file issue for each requirement with fewer created files than its
\* minimal_count and none for a requirement that is met; with such an issue
\* the iteration fails with classification OutputFileContent.
C27_MissingArtifactIssues ==
    output # NoOutput =>
        /\ \A i \in 1..Len(output_file_requirements) :
              CountIssues("NumFilesCreated", output_file_requirements[i].filename)
                  = (IF i \in UnmetRequirements THEN 1 ELSE 0)
        /\ Cardinality({i \in 1..Len(issues) : issues[i].kind = "NumFilesCreated"})
              = Cardinality(UnmetRequirements)
        /\ UnmetRequirements # {} =>
              /\ code_problem = "OutputFileContent"
              /\ stage \in {"output", "exhausted"}
              /\ returned.value # "CodeAndOutput"
              /\ action = SelectAction(response_count, "OutputFileContent")

C27_Witness ==
    /\ stage = "output"
    /\ Len(output.files[1]) = 1
    /\ Len(output.files[2]) = MinimalCount - 1
    /\ issues = << IssueAbout("NumFilesCreated", "*.csv") >>
    /\ pc = "loop"

\* the files the run created for requirement i, as << i, k >>
FilesOf(i) == {<< i, k >> : k \in 1..Len(output.files[i])}

CreatedFiles == UNION {FilesOf(i) : i \in 1..Len(output_file_requirements)}

\* C28: each file created for a content-bearing requirement gets one issue
\* when its content is empty after stripping or has more tokens than the
\* max_tokens of the requirement, and none otherwise; the files of the other
\* requirements get none.
C28_OutputContentIssues ==
    output # NoOutput =>
        /\ \A f \in CreatedFiles :
              LET requirement == output_file_requirements[f[1]]
                  content == output.files[f[1]][f[2]]
              IN  CountIssues("OutputFileContent", requirement.names[f[2]])
                    = (IF /\ requirement.is_content
                          /\ (content.blank \/ content.tokens > requirement.max_tokens)
                       THEN 1 ELSE 0)
        /\ Cardinality({i \in 1..Len(issues) : issues[i].kind = "OutputFileContent"})
              = Cardinality({f \in CreatedFiles :
                    /\ output_file_requirements[f[1]].is_content
                    /\ \/ output.files[f[1]][f[2]].blank
                       \/ output.files[f[1]][f[2]].tokens
                            > output_file_requirements[f[1]].max_tokens})

C28_Witness ==
    /\ stage = "output"
    /\ output.files[1] = << Content(TRUE, TokenBudget + 1) >>
    /\ Len(output.files[2]) = MinimalCount
    /\ output.files[2][1] = Content(TRUE, 0)
    /\ issues = << IssueAbout("OutputFileContent", "output.txt") >>

\* a step that is a failed pass of the loop: an action is selected in it
SelectionStep == IterationStep /\ stage' # "success"

\* C29: the response count is 0 or 1 at every action selection and never
\* decreases; it is 0 exactly while the conversation is still the prefix,
\* that is while every failure so far was an IncompleteBlock on the first
\* response (regenerate); after the first leave or repost it is 1 and stays 1
\* through every later repost or regenerate.
C29_ResponseCount ==
    /\ [](response_count \in {0, 1})
    /\ [][response_count' >= response_count]_vars
    /\ [][SelectionStep =>
            /\ response_count' = (IF conversation = Prefix THEN 0 ELSE 1)
            /\ (response_count' = 0 /\ code_problem' = "IncompleteBlock")
                  => action' = "regenerate"
            /\ pc' = "loop" =>
                  (conversation' = Prefix
                      <=> (response_count' = 0 /\ action' = "regenerate"))
            /\ (response_count' = 0 /\ action' \in {"leave", "repost"} /\ pc' = "loop")
                  => GetResponseCount(Append(conversation', ResponseMessage(0, NoneCode))) = 1
            /\ response_count = 1 =>
                  /\ response_count' = 1
                  /\ action' \in {"repost", "regenerate"}]_vars
    /\ []((pc = "loop" /\ debug_iteration > 0 /\ conversation = Prefix) =>
            /\ response_count = 0
            /\ code_problem = "IncompleteBlock"
            /\ action = "regenerate")

C29_Witness ==
    /\ pc = "loop"
    /\ debug_iteration = 3
    /\ response_count = 1
    /\ action = "regenerate"
    /\ previous_code = Code(2, MaxLines)

\* a leave or a repost has been applied in this call: the conversation holds
\* an answer after the prefix
AnswerKept == conversation # Prefix

\* C30: leave is selected only on the bare prefix, that is before any leave
\* or repost; once a leave or a repost is applied the loop never sees the
\* bare prefix again, so leave is selected at most once in a call and never
\* after a repost or another leave.
C30_LeaveAtMostOnce ==
    /\ [][(SelectionStep /\ action' = "leave") =>
            /\ ~AnswerKept
            /\ response_count' = 0
            /\ code_problem' = "NotSingleBlock"]_vars
    /\ [][(SelectionStep /\ action' \in {"leave", "repost"} /\ pc' = "loop") =>
            AnswerKept']_vars
    /\ [][(pc = "loop" /\ AnswerKept /\ pc' = "loop") => AnswerKept']_vars
    /\ [][(pc = "loop" /\ AnswerKept /\ IterationStep) => action' # "leave"]_vars

C30_Witness ==
    /\ pc = "loop"
    /\ debug_iteration = 2
    /\ code_problem = "NotSingleBlock"
    /\ action = "regenerate"
    /\ conversation[Len(Prefix) + 1] = ResponseMessage(1, NoneCode)

\* C31: whenever repost is selected the code passed to it is the code
\* extracted from the response of the iteration, never the absent code:
\* repost is not selected after an extraction failure, and the surrogate
\* message and previous_code hold extracted code.
C31_RepostHasExtractedCode ==
    /\ [][(SelectionStep /\ action' = "repost") =>
            /\ stage' \in {"static", "run", "output"}
            /\ code' # NoneCode
            /\ code'.id = debug_iteration'
            /\ previous_code' = code'
            /\ conversation'[Len(Prefix) + 1]
                  = SurrogateMessage(debug_iteration', code')]_vars
    /\ [][(SelectionStep /\ stage' = "extract") =>
            /\ action' \in {"regenerate", "leave"}
            /\ UNCHANGED previous_code]_vars
    /\ [](\A i \in 1..Len(conversation) :
            conversation[i].role = "SURROGATE" => conversation[i].code # NoneCode)
    /\ [](previous_code.id > 0 => previous_code.lines \in CodeLines)

C31_Witness ==
    /\ pc = "loop"
    /\ action = "repost"
    /\ stage = "run"
    /\ debug_iteration = 2
    /\ previous_code = Code(2, MaxLines)
    /\ conversation[Len(Prefix) + 1] = SurrogateMessage(2, Code(2, MaxLines))

\* C32: in a session started without a previous code and with the flag
\* false, whenever the next pass of the loop finds requesting_small_change
\* true, the batch of the last pass was all minor and was handled by repost,
\* so previous_code is present and is the code of that pass.
C32_SmallChangeHasPreviousCode ==
    (InLoop /\ requesting_small_change) =>
        /\ previous_code # NoneCode
        /\ previous_code = code
        /\ previous_code.id = debug_iteration
        /\ action = "repost"
        /\ issues # << >>
        /\ DoAllIssuesRequestSmallChange(issues)
        /\ conversation[Len(Prefix) + 1] = SurrogateMessage(debug_iteration, code)

C32_Witness ==
    /\ InLoop
    /\ requesting_small_change
    /\ debug_iteration = 2
    /\ response_count = 1
    /\ stage = "run"
    /\ previous_code = Code(2, MaxLines - 1)

\* a pass of the loop whose response holds an incomplete code block
IncompleteStep ==
    IterationStep /\ extraction_failure' = "IncompleteBlock"

C34_NamedEngineIsUsedNext ==
    [][(IterationStep
        /\ extraction_failure = "IncompleteBlock"
        /\ stage = "extract"
        /\ request_engine # model_engine)
       => request_engine' = issues[1].about]_vars

\* the engine an issue names is sometimes the engine used next: the engine
\* one step below the maximum, when get_next() of the maximum is the maximum
C34_NamedSometimesUsed ==
    /\ stage = "extract"
    /\ extraction_failure = "IncompleteBlock"
    /\ request_engine = ModelEngine[Len(ModelEngine) - 1]
    /\ issues[1].about = model_engine

\* the number of whole-word occurrences of a word in a string
Occurrences(string, word) ==
    Cardinality({i \in 1..Len(string) : MatchAt(string, word, i)})

StopWords ==
    {words_to_remove_in_case_of_zero_citation_error[i] :
        i \in 1..Len(words_to_remove_in_case_of_zero_citation_error)}

\* a pass of the while loop of _get_server_response
SearchStep == search_requests' = search_requests + 1

\* C35: the search ends for every query; a pass that gets no paper removes
\* every occurrence of one word, the first word of the tuple that occurs in
\* the query, leaves the other words as they are and goes on with a strictly
\* shorter query; when no word of the tuple occurs it returns the empty
\* list; a pass that gets papers returns, and nothing is requested after a
\* return.
C35_SearchTerminates ==
    /\ <>(search_pc # "request")
    /\ [][(SearchStep /\ search_pc' = "request") =>
            /\ response'.status_code = 200
            /\ PapersOf(response') = << >>
            /\ Len(query') < Len(query)
            /\ removed_word' \in StopWords
            /\ Occurrences(query, removed_word') > 0
            /\ Occurrences(query', removed_word') = 0
            /\ \A i \in 1..Len(words_to_remove_in_case_of_zero_citation_error) :
                  LET word == words_to_remove_in_case_of_zero_citation_error[i]
                  IN  /\ word # removed_word' =>
                            Occurrences(query', word) = Occurrences(query, word)
                      /\ Occurrences(query, word) > 0 =>
                            \E j \in 1..i :
                               words_to_remove_in_case_of_zero_citation_error[j]
                                   = removed_word']_vars
    /\ [][(SearchStep /\ response'.status_code = 200
           /\ PapersOf(response') = << >>
           /\ \A word \in StopWords : Occurrences(query, word) = 0) =>
            /\ search_pc' = "returned"
            /\ search_result' = [returned |-> TRUE, papers |-> << >>]]_vars
    /\ [][(SearchStep /\ response'.status_code = 200
           /\ PapersOf(response') # << >>) =>
            /\ search_pc' = "returned"
            /\ search_result'.returned]_vars
    /\ [][search_pc = "returned" => UNCHANGED search_vars]_vars

C35_Witness ==
    /\ search_pc = "returned"
    /\ search_requests = 3
    /\ query = << "-" >>
    /\ removed_word = << "a", "n" >>
    /\ search_result = [returned |-> TRUE, papers |-> << >>]

\* C36: a response whose status is not 200, to the first request or to a
\* later one, makes the call raise at once: nothing is returned, the query
\* is not redacted and no further request is made.
C36_ErrorStatusRaisesAtOnce ==
    /\ [][(SearchStep /\ response'.status_code # 200) =>
            /\ search_pc' = "raised"
            /\ UNCHANGED << query, search_result >>]_vars
    /\ [](search_pc = "raised" =>
            /\ response.status_code # 200
            /\ ~search_result.returned
            /\ search_result.papers = << >>)
    /\ [][search_pc = "raised" => UNCHANGED search_vars]_vars

C36_Witness ==
    /\ search_pc = "raised"
    /\ search_requests = 2
    /\ response.status_code = 404
    /\ removed_word = << "a" >>

\* the call has ended with the files of the temporary directory moved
FilesMoved ==
    /\ temp_directory \cap OutputFiles = {}
    /\ WrittenFiles(references) \subseteq moved_files

\* C37: with an output directory given, the call ends with the files moved
\* on every exit but the failure of the first pdflatex run, which raises
\* LatexCompilationError with nothing moved; the failure of bibtex or of a
\* later run and TooWideTableOrText are raised with the files moved.
C37_FilesMovedOnEveryLaterExit ==
    (output_directory /\ latex_pc \in {"returned", "raised"}) =>
        IF latex_exception = "LatexCompilationError"
        THEN moved_files = {}
        ELSE FilesMoved

\* what holds instead: the files are moved on every exit but the failure of
\* the first run and the failure of add_watermark_to_pdf
C37_FilesMovedUnlessWatermarkFails ==
    (output_directory /\ latex_pc \in {"returned", "raised"}) =>
        IF latex_exception \in {"LatexCompilationError", "WatermarkError"}
        THEN moved_files = {}
        ELSE FilesMoved

\* the first run left no pdf, add_watermark_to_pdf raised, nothing was moved
C37_WatermarkFailureMovesNothing ==
    /\ output_directory
    /\ latex_pc = "raised"
    /\ latex_exception = "WatermarkError"
    /\ temp_directory = {"tex", "bib"}
    /\ moved_files = {}

\* the choices of possible_choices that occur in the extracted text
ChoicesThatOccur ==
    {possible_choices[i] : i \in 1..Len(possible_choices)}
        \cap {choice \in ChoiceStrings : Contains(extracted_text, choice)}

\* C38: the check records a valid result exactly when one and only one of
\* possible_choices occurs in the text, and the result is that choice; with
\* no choice or more than one, the self-response error carrying the choice
\* instructions is raised and the valid result stays as it was.
C38_ExactlyOneChoice ==
    /\ [](choice_pc = "returned" <=>
            (choice_pc # "check" /\ Cardinality(ChoicesThatOccur) = 1))
    /\ [](choice_pc = "returned" => ChoicesThatOccur = {valid_result})
    /\ [](choice_pc = "raised" =>
            /\ self_response_error = "choice_instructions"
            /\ Cardinality(ChoicesThatOccur) # 1)
    /\ [][choice_pc' = "raised" => UNCHANGED valid_result]_vars
    /\ [](choice_pc = "returned" => self_response_error = "none")

C38_Witness ==
    /\ choice_pc = "returned"
    /\ possible_choices = << << "1" >>, << "2" >> >>
    /\ extracted_text = << "x", "1", "x" >>
    /\ valid_result = << "1" >>

\* C39: the most updated sections have exactly the names of paper_sections;
\* the content of a name is the tabled version when the name is ready to be
\* tabled, otherwise the cited version when the name is cited, otherwise the
\* plain section.
C39_MostUpdatedSections ==
    products_pc = "got" =>
        /\ DOMAIN most_updated_paper_sections = DOMAIN paper_sections
        /\ \A name \in DOMAIN paper_sections :
              most_updated_paper_sections[name] =
                  IF name \in DOMAIN ready_to_be_tabled_paper_sections
                  THEN [text |-> ready_to_be_tabled_paper_sections[name].text,
                        tables |-> tables]
                  ELSE IF name \in DOMAIN cited_paper_sections_and_citations
                       THEN cited_paper_sections_and_citations[name][1]
                       ELSE paper_sections[name]

C39_Witness ==
    /\ products_pc = "got"
    /\ DOMAIN paper_sections = {"abstract"}
    /\ DOMAIN cited_paper_sections_and_citations = {"abstract", "results"}
    /\ DOMAIN ready_to_be_tabled_paper_sections = {"abstract", "results"}
    /\ tables = << "table_1" >>
    /\ paper_sections["abstract"].text = "text_1"
    /\ cited_paper_sections_and_citations["abstract"][1].text = "text_1"
    /\ ready_to_be_tabled_paper_sections["abstract"].text = "text_2"
    /\ most_updated_paper_sections =
          [name \in {"abstract"} |-> [text |-> "text_2", tables |-> << "table_1" >>]]

====
